---- MODULE Spec2Model ----
(***************************************************************************)
(* A model of stipulate.rs: the grading run of test_from_configuration     *)
(* (src/test/mod.rs) and the process runner test_output_against_strings    *)
(* (src/test/process.rs).                                                  *)
(*                                                                         *)
(* Strings and file names are sequences of one-character strings, so that  *)
(* the extension stripping, the path formatting and the UTF-8 checks are   *)
(* computed and not assumed.  BAD stands for a byte that is not valid      *)
(* UTF-8.                                                                  *)
(***************************************************************************)
EXTENDS Integers, Sequences, FiniteSets, TLC

\* ------------------------------------------------------------------ bounds

\* Capacity of an OS pipe, scaled down (64 KiB on Linux).
PipeCap == 2

\* ----------------------------------------------------------- text helpers

BAD == "\\xFF"

\* Option<T>: None is the empty sequence, Some(x) the sequence holding x.
None == <<>>
Some(x) == <<x>>

Max(S) == CHOOSE m \in S : \A x \in S : x <= m

Min(S) == CHOOSE m \in S : \A x \in S : m <= x

Range(s) == {s[i] : i \in 1..Len(s)}

\* std::str::from_utf8 / OsStr::to_str succeed iff every byte is valid.
IsUtf8(s) == BAD \notin Range(s)

\* n copies of the byte ch.
RECURSIVE Repeat(_, _)
Repeat(ch, n) == IF n = 0 THEN <<>> ELSE <<ch>> \o Repeat(ch, n - 1)

\* Every ordering of the elements of the finite set S (the order in which
\* fs::read_dir or a HashMap hands out its items is not specified).
RECURSIVE Orders(_)
Orders(S) ==
    IF S = {} THEN {<<>>}
    ELSE UNION {{<<x>> \o rest : rest \in Orders(S \ {x})} : x \in S}

\* ------------------------------------------------------ fixture discovery

\* FILENAME_EXT_REMOVER = (.*)[.][^.]+ applied with captures(), which
\* finds the leftmost match.  The group (.*) does not cross a line break
\* and is greedy: from the first position a match can start at, it takes
\* everything before the last dot of that line that is followed by a
\* character other than a dot ([^.] does match a line break).  No such dot
\* means no match.
StripExt(name) ==
    LET Dots(s) == {p \in s..(Len(name) - 1) :
                       /\ name[p] = "."
                       /\ name[p + 1] # "."
                       /\ \A q \in s..(p - 1) : name[q] # "\n"}
        Starts == {s \in 1..Len(name) : Dots(s) # {}}
    IN IF Starts = {} THEN None
       ELSE LET s == Min(Starts)
            IN Some(SubSeq(name, s, Max(Dots(s)) - 1))

\* Itertools::unique: the first occurrence of every item, in order.
RECURSIVE Unique(_)
Unique(s) ==
    IF s = <<>> THEN <<>>
    ELSE LET init == Unique(SubSeq(s, 1, Len(s) - 1))
             last == s[Len(s)]
         IN IF last \in Range(init) THEN init ELSE Append(init, last)

\* The filter_map over the directory listing: the basename of every name
\* the regex matches, names it does not match dropped.
RECURSIVE Basenames(_)
Basenames(listing) ==
    IF listing = <<>> THEN <<>>
    ELSE StripExt(Head(listing)) \o Basenames(Tail(listing))

\* format!("{}/{}.in", dir, case): the file name inside the directory.
InFile(case) == case \o <<".", "i", "n">>
OutFile(case) == case \o <<".", "o", "u", "t">>

\* File::open(..)?.read_to_string(..)? succeeds iff the file exists and its
\* content is UTF-8.
Readable(dir, file) == file \in DOMAIN dir.files /\ IsUtf8(dir.files[file])

\* The collect::<Result<Vec<_>, _>>() over the cases: all contents in case
\* order, or an error as soon as one file cannot be read.
ReadAll(dir, caseSeq, ext) ==
    LET file(i) == caseSeq[i] \o ext
    IN IF \A i \in 1..Len(caseSeq) : Readable(dir, file(i))
       THEN [ok |-> TRUE, data |-> [i \in 1..Len(caseSeq) |-> dir.files[file(i)]]]
       ELSE [ok |-> FALSE, data |-> <<>>]

\* cases.zip(inputs.zip(outputs)).collect(): the HashMap of test cases.
ZipCases(caseSeq, ins, outs) ==
    [c \in Range(caseSeq) |->
        LET i == CHOOSE j \in 1..Len(caseSeq) : caseSeq[j] = c
        IN [input |-> ins[i], output |-> outs[i]]]


\* ------------------------------------------------------------- outcomes

\* Result<TestAnswer, Box<dyn Error>>: Ok(answer), or Err(message).
Ok(answer) == [ok |-> TRUE, val |-> answer]
Err(msg) == [ok |-> FALSE, val |-> msg]

TestAnswer == {"Success", "Failure", "Timeout", "FailWithMessage", "CompileError"}

\* ------------------------------------------------------- configuration

\* Default timeout, in seconds, per test case.
DEFAULT_TIMEOUT == 5

\* The configurations a run is made with: the backend and case_timeout().
Configs ==
    [backend : {"java", "python"}, timeout : {None, Some(DEFAULT_TIMEOUT)}]

\* Config::do_setup: javac's verdict for Java, always true for Python.
DoSetup(backend, compiles) == IF backend = "java" THEN compiles ELSE TRUE

\* ---------------------------------------------------- configuration files

\* Width of the machine words Integer (i64) and Duration's seconds (u64)
\* are modelled with, scaled down from 64 bits.
WordBits == 5

\* Default timeout for python programs, in seconds, per test case.
PYTHON_DEFAULT_TIMEOUT == 5

\* The default python interpreter on unix.
DEFAULT_PYTHON == <<"p", "y", "t", "h", "o", "n", "3">>

\* toml::Value: a tag and what the variant holds, under a field of its
\* own.  A Float holds its value in tenths, an Array a sequence of values, a
\* Table a function from keys to values, a Datetime its text.
TomlString(str) == [t |-> "String", s |-> str]
TomlInteger(n) == [t |-> "Integer", i |-> n]
TomlFloat(tenths) == [t |-> "Float", f |-> tenths]
TomlBoolean(bool) == [t |-> "Boolean", b |-> bool]
TomlDatetime(text) == [t |-> "Datetime", d |-> text]
TomlArray(items) == [t |-> "Array", a |-> items]
TomlTable(map) == [t |-> "Table", m |-> map]

\* Value::get(key): the entry of a table, None for a missing key and for a
\* value that is no table.
Get(conf, key) ==
    IF conf.t = "Table" /\ key \in DOMAIN conf.m THEN Some(conf.m[key]) ELSE None

\* Duration::new(secs, nanos)
Duration(secs, nanos) == [secs |-> secs, nanos |-> nanos]

\* i64 as u64: the same bits read as an unsigned word.
AsUnsigned(n) == n % (2 ^ WordBits)

\* f64 as u64: truncated towards zero and saturated to the word's range.
FloatAsUnsigned(tenths) ==
    IF tenths < 0 THEN 0
    ELSE IF tenths \div 10 >= 2 ^ WordBits THEN 2 ^ WordBits - 1
    ELSE tenths \div 10

\* ((seconds % 1.0) * 1e9) as u32, saturated at zero for a negative value.
FractionNanos(tenths) == IF tenths < 0 THEN 0 ELSE (tenths % 10) * 100000000

\* format!("{}", i) of an integer: its decimal digits, with a sign.
RECURSIVE DecimalDigits(_)
DecimalDigits(n) ==
    LET digit == SubSeq(<<"0", "1", "2", "3", "4", "5", "6", "7", "8", "9">>,
                        (n % 10) + 1, (n % 10) + 1)
    IN IF n < 10 THEN digit ELSE DecimalDigits(n \div 10) \o digit

FormatInteger(n) == IF n < 0 THEN <<"-">> \o DecimalDigits(0 - n) ELSE DecimalDigits(n)

\* format!("{}", f) of a non-negative float: no fraction is printed for a
\* whole number.
FormatFloat(tenths) ==
    IF tenths % 10 = 0 THEN DecimalDigits(tenths \div 10)
    ELSE DecimalDigits(tenths \div 10) \o <<".">> \o DecimalDigits(tenths % 10)

\* The match on one element of args.
FormatArg(v) ==
    CASE v.t = "String" -> Ok(v.s)
      [] v.t \in {"Array", "Table"} -> Err("Args may not contain nested structures")
      [] v.t = "Integer" -> Ok(FormatInteger(v.i))
      [] v.t = "Float" -> Ok(FormatFloat(v.f))
      [] v.t = "Boolean" -> Ok(IF v.b THEN <<"t", "r", "u", "e">>
                                         ELSE <<"f", "a", "l", "s", "e">>)
      [] v.t = "Datetime" -> Ok(v.d)

\* A field that must be a string.
StringField(conf, key, missing, wrong) ==
    LET g == Get(conf, key)
    IN IF g = None THEN Err(missing)
       ELSE IF g[1].t = "String" THEN Ok(g[1].s)
       ELSE Err(wrong)

\* The match on conf.get("timeout"), with the backend's default.
TimeoutField(conf, default, wrong) ==
    LET g == Get(conf, "timeout")
    IN IF g = None THEN Ok(Some(Duration(default, 0)))
       ELSE CASE g[1].t = "Integer" -> Ok(Some(Duration(AsUnsigned(g[1].i), 0)))
              [] g[1].t = "Float" ->
                    Ok(Some(Duration(FloatAsUnsigned(g[1].f), FractionNanos(g[1].f))))
              [] g[1].t = "Boolean" ->
                    IF g[1].b THEN Ok(Some(Duration(default, 0))) ELSE Ok(None)
              [] OTHER -> Err(wrong)

\* The match on conf.get("args"): every element formatted, or the first
\* error of the collect().
ArgsField(conf) ==
    LET g == Get(conf, "args")
    IN IF g = None THEN Ok(<<>>)
       ELSE IF g[1].t # "Array" THEN Err("\"args\", if specified, must be an array")
       ELSE LET items == g[1].a
                bad == {i \in 1..Len(items) : ~FormatArg(items[i]).ok}
            IN IF bad # {} THEN FormatArg(items[Min(bad)])
               ELSE Ok([i \in 1..Len(items) |-> FormatArg(items[i]).val])

\* JavaConfig::from_toml: the fields in the order the code reads them, the
\* first error returned.
JavaFromToml(conf) ==
    LET name == StringField(conf, "name", "Missing \"name\" field",
                            "\"name\" field should be a string")
        test_data_dir == StringField(conf, "tests_dir", "Missing \"tests_dir\" field",
                                     "\"tests_dir\" field should be a string")
        main_class == StringField(conf, "main_class", "Missing \"main_class\" field",
                                  "\"main_class\" field should be a string")
        timeout == TimeoutField(conf, DEFAULT_TIMEOUT,
                       "\"timeout\", if specified, should be a number or boolean")
        args == ArgsField(conf)
        target_dir == StringField(conf, "target_dir", "Missing \"target_dir\" field",
                                  "\"target_dir\" field must be a string")
    IN CASE ~name.ok -> name
         [] ~test_data_dir.ok -> test_data_dir
         [] ~main_class.ok -> main_class
         [] ~timeout.ok -> timeout
         [] ~args.ok -> args
         [] ~target_dir.ok -> target_dir
         [] OTHER -> Ok([backend |-> "java", name |-> name.val,
                         test_data_dir |-> test_data_dir.val,
                         timeout |-> timeout.val, main_class |-> main_class.val,
                         args |-> args.val, target_dir |-> target_dir.val])

\* PythonConfig::from_toml
PythonFromToml(conf) ==
    LET name == StringField(conf, "name", "Missing \"name\" field",
                            "\"name\" field should be a string")
        test_data_dir == StringField(conf, "tests_dir", "Missing \"tests_dir\" field",
                                     "\"tests_dir\" field should be a string")
        python_version ==
            IF Get(conf, "version") = None THEN Ok(DEFAULT_PYTHON)
            ELSE StringField(conf, "version", "",
                             "\"version\", if specified, must be a string")
        timeout == TimeoutField(conf, PYTHON_DEFAULT_TIMEOUT,
                       "\"timeout\", if specified, should be a number or false")
        filename == StringField(conf, "file", "Missing \"file\" field",
                                "\"file\" field should be a string")
        args == ArgsField(conf)
        target_dir == StringField(conf, "target_dir", "Missing \"target_dir\" field",
                                  "\"target_dir\" field must be a string")
    IN CASE ~name.ok -> name
         [] ~test_data_dir.ok -> test_data_dir
         [] ~python_version.ok -> python_version
         [] ~timeout.ok -> timeout
         [] ~filename.ok -> filename
         [] ~args.ok -> args
         [] ~target_dir.ok -> target_dir
         [] OTHER -> Ok([backend |-> "python", name |-> name.val,
                         test_data_dir |-> test_data_dir.val,
                         python_version |-> python_version.val,
                         timeout |-> timeout.val, filename |-> filename.val,
                         args |-> args.val, target_dir |-> target_dir.val])

\* Mutant: the count of the sections is not looked at, a java section is
\* taken if there is one.
M_FromTomlValues(values) ==
    IF values.t # "Table"
    THEN Err("The config file wasn't a table (shouldn't be thrown)")
    ELSE IF "java" \in DOMAIN values.m THEN JavaFromToml(values.m["java"])
    ELSE IF "python" \in DOMAIN values.m THEN PythonFromToml(values.m["python"])
    ELSE Err("Unrecognized config type")

\* TestConfig::from_toml_values
FromTomlValues(values) ==
    IF values.t # "Table"
    THEN Err("The config file wasn't a table (shouldn't be thrown)")
    ELSE IF Cardinality(DOMAIN values.m) # 1
    THEN Err("The config file should have exactly one section")
    ELSE LET key == CHOOSE k \in DOMAIN values.m : TRUE
         IN CASE key = "java" -> JavaFromToml(values.m[key])
              [] key = "python" -> PythonFromToml(values.m[key])
              [] OTHER -> Err("Unrecognized config type")

\* JavaConfig::args: a clone of the extra arguments with the main class
\* inserted in front.
JavaArgs(self, student_dir) == <<self.main_class>> \o self.args

\* PythonConfig::args: format!("{}/{}", student_dir, filename), then the
\* extra arguments.
PythonArgs(self, student_dir) ==
    <<student_dir \o <<"/">> \o self.filename>> \o self.args

\* ------------------------------------------------------------- reports

\* The characters of the names, in the order of their bytes.
Alphabet ==
    <<" ", ".", "0", "1", "2", "3", "4", "5", "6", "7", "8", "9",
      "A", "B", "C", "D", "E", "F", "G", "H", "I", "J", "K", "L", "M",
      "N", "O", "P", "Q", "R", "S", "T", "U", "V", "W", "X", "Y", "Z",
      "a", "b", "c", "d", "e", "f", "g", "h", "i", "j", "k", "l", "m",
      "n", "o", "p", "q", "r", "s", "t", "u", "v", "w", "x", "y", "z">>

CharCode(ch) == CHOOSE i \in 1..Len(Alphabet) : Alphabet[i] = ch

\* Ord for String: the order of the bytes, a proper prefix first.
StrLess(x, y) ==
    \E i \in 1..(Len(x) + 1) :
        /\ i <= Len(y)
        /\ \A j \in 1..(i - 1) : x[j] = y[j]
        /\ i = Len(x) + 1 \/ CharCode(x[i]) < CharCode(y[i])

\* Mutant: the names are sorted in descending order.
RECURSIVE M_Sorted(_)
M_Sorted(S) ==
    IF S = {} THEN <<>>
    ELSE LET last == CHOOSE x \in S : \A y \in S \ {x} : StrLess(x, y)
         IN M_Sorted(S \ {last}) \o <<last>>

\* Itertools::sorted over distinct strings: the least first.
RECURSIVE Sorted(_)
Sorted(S) ==
    IF S = {} THEN <<>>
    ELSE LET least == CHOOSE x \in S : \A y \in S \ {x} : StrLess(x, y)
         IN <<least>> \o Sorted(S \ {least})

\* The match on an outcome that gives a cell its mark.
CellMark(outcome) ==
    IF ~outcome.ok THEN <<"!">>
    ELSE CASE outcome.val = "Success" -> <<" ">>
           [] outcome.val = "Failure" -> <<"F">>
           [] outcome.val = "FailWithMessage" -> <<"F">>
           [] outcome.val = "CompileError" -> <<"C">>
           [] outcome.val = "Timeout" -> <<"T">>

\* student_result.values().filter(Ok(Success)).count()
PassedCount(student_result) ==
    Cardinality({c \in DOMAIN student_result : student_result[c] = Ok("Success")})

\* What a renderer ends with: the rows it has written, or a panic.
Rendered(mode, rows) == [mode |-> mode, panicked |-> FALSE, rows |-> rows]
RenderPanic(mode) == [mode |-> mode, panicked |-> TRUE, rows |-> <<>>]

\* CsvOutput::output_class_results, first being the entry results.iter()
\* yields first: the header line and one line per student, each a sequence
\* of the fields that are joined with commas.
CsvLines(class_results, first) ==
    LET case_names == Sorted(DOMAIN class_results[first])
        students == Sorted(DOMAIN class_results)
        line(name) ==
            <<name, DecimalDigits(PassedCount(class_results[name])),
              DecimalDigits(Len(case_names))>>
            \o [i \in 1..Len(case_names) |->
                   CellMark(class_results[name][case_names[i]])]
    IN IF \E n \in DOMAIN class_results :
              Range(case_names) \ DOMAIN class_results[n] # {}
       THEN RenderPanic("csv")
       ELSE Rendered("csv",
                <<<<<<"N", "a", "m", "e">>, <<"P", "a", "s", "s", "e", "d">>,
                    <<"T", "o", "t", "a", "l">>>> \o case_names>>
                \o [k \in 1..Len(students) |-> line(students[k])])

\* Row::insert_cell: the cell goes to the index, or to the end of a row
\* that is shorter than the index.
InsertCell(row, index, cell) ==
    IF index < Len(row)
    THEN SubSeq(row, 1, index) \o <<cell>> \o SubSeq(row, index + 1, Len(row))
    ELSE Append(row, cell)

\* Table::output_class_results: the rows of cells handed to prettytable.
TableRows(class_results, first) ==
    LET case_names == Sorted(DOMAIN class_results[first])
        students == Sorted(DOMAIN class_results)
        marks(name) ==
            [i \in 1..Len(case_names) |-> CellMark(class_results[name][case_names[i]])]
        row(name) ==
            InsertCell(
                InsertCell(InsertCell(marks(name), 0, name), 1,
                           DecimalDigits(PassedCount(class_results[name]))),
                2, DecimalDigits(Len(case_names)))
    IN IF \E n \in DOMAIN class_results :
              Range(case_names) \ DOMAIN class_results[n] # {}
       THEN RenderPanic("print")
       ELSE Rendered("print",
                <<<<<<>>, <<"P", "a", "s", "s", "e", "d">>,
                    <<"T", "o", "t", "a", "l">>>> \o case_names>>
                \o [k \in 1..Len(students) |-> row(students[k])])

\* Config::env_vars: CLASSPATH set to the submission directory for Java,
\* nothing for Python.  The map is a set of <<name, value>> pairs.
EnvVars(backend, student_dir) ==
    IF backend = "java" THEN {<<"CLASSPATH", student_dir>>} ELSE {}

\* ------------------------------------------------------------ the world

CaseA == <<"a">>
CaseB == <<"b">>

CoreFiles == {InFile(CaseA), OutFile(CaseA), InFile(CaseB), OutFile(CaseB)}

Readme == <<"R", ".", "t", "x", "t">>
NoExtFile == <<"n", "o", "t", "e", "s">>
DotFile == <<".", "h">>
NonUnicodeFile == <<BAD, ".", "i", "n">>

ExtraFiles == {Readme, NoExtFile, DotFile, NonUnicodeFile}

\* A case name with a dot in it, and one with a line break in it.
DottedCase == <<"a", ".", "b">>
LineCase == <<"x", "\n", "a">>

NamedFiles ==
    {InFile(DottedCase), OutFile(DottedCase), InFile(LineCase), OutFile(LineCase)}

\* What the fixture files hold.
FixtureContent(file) ==
    CASE file = InFile(CaseA) -> <<"h">>
      [] file = OutFile(CaseA) -> <<"h">>
      [] file = InFile(CaseB) -> <<>>
      [] file = OutFile(CaseB) -> <<"h", "\n">>
      [] file \in NamedFiles -> file
      [] OTHER -> <<"x">>

\* The fixture directories of a run: missing (read_dir fails), or any of
\* the core files, at most one other file, at most one file whose content
\* is not UTF-8.
FixtureDirs ==
    {[exists |-> FALSE, files |-> <<>>]} \cup
    {[exists |-> TRUE,
      files |-> [f \in core \cup extra |->
                    IF f \in corrupt THEN <<BAD>> ELSE FixtureContent(f)]] :
        core \in SUBSET CoreFiles,
        extra \in {{}} \cup {{e} : e \in ExtraFiles},
        corrupt \in {{}} \cup {{f} : f \in CoreFiles}}

\* The fixture directories the loading alone is run on: missing, or any of
\* the files of three cases and a file whose name is not Unicode.
LoadDirs ==
    {[exists |-> FALSE, files |-> <<>>]} \cup
    {[exists |-> TRUE, files |-> [f \in fs |-> FixtureContent(f)]] :
        fs \in SUBSET ({InFile(CaseA), OutFile(CaseA), NonUnicodeFile}
                          \cup NamedFiles)}

Student1 == <<"s", "1">>
Student2 == <<"s", "2">>
PlainFile == <<"f">>
BrokenEntry == <<"e">>
NonUnicodeDir == <<"s", BAD>>

\* DirEntry::path(): the target directory's path joined with the entry's
\* name.
TargetPath == <<"t">>
StudentPath(name) == TargetPath \o <<"/">> \o name

\* What fs::read_dir and file_type report for an entry of the target
\* directory: a directory, something else, or an I/O error.
EntryKind(name) ==
    CASE name = PlainFile -> "file"
      [] name = BrokenEntry -> "err"
      [] OTHER -> "dir"

\* The target directories of a run: missing, or up to two submissions, or
\* one submission beside one other entry.
TargetDirs ==
    {[exists |-> FALSE, entries |-> {}]} \cup
    {[exists |-> TRUE, entries |-> es] :
        es \in SUBSET {Student1, Student2} \cup
               {{Student1, e} : e \in {PlainFile, BrokenEntry, NonUnicodeDir}} \cup
               {{PlainFile}}}

\* ----------------------------------------------- the configuration files

\* A key that is not in the table.
Absent == [t |-> "Absent"]

\* What a field that must be a string is given as: the string, nothing, or
\* a value of another type.
StringValues(str) == {TomlString(str), Absent, TomlInteger(1)}

TimeoutValues ==
    {Absent, TomlInteger(-1), TomlInteger(0), TomlInteger(3), TomlFloat(15),
     TomlBoolean(TRUE), TomlBoolean(FALSE), TomlString(<<"5">>)}

ArgsValues ==
    {Absent,
     TomlArray(<<>>),
     TomlArray(<<TomlString(<<"x">>), TomlString(<<"y">>)>>),
     TomlArray(<<TomlInteger(-12), TomlBoolean(TRUE), TomlFloat(25),
                 TomlDatetime(<<"1", "9", "7", "9">>)>>),
     TomlArray(<<TomlString(<<"x">>), TomlArray(<<>>)>>),
     TomlArray(<<TomlTable(<<>>)>>),
     TomlString(<<"x">>)}

\* The table of the keys that are given a value.
MakeTable(fields) ==
    TomlTable([k \in {j \in DOMAIN fields : fields[j].t # "Absent"} |-> fields[k]])

JavaSections ==
    {MakeTable([name |-> n, tests_dir |-> d, main_class |-> m, timeout |-> t,
                args |-> a, target_dir |-> g]) :
        n \in StringValues(<<"n">>), d \in StringValues(<<"f">>),
        m \in StringValues(<<"M">>), t \in TimeoutValues, a \in ArgsValues,
        g \in StringValues(<<"t">>)}

PythonSections ==
    {MakeTable([name |-> n, tests_dir |-> d, version |-> w, timeout |-> t,
                file |-> f, args |-> a, target_dir |-> g]) :
        n \in {TomlString(<<"n">>)}, d \in StringValues(<<"f">>),
        w \in StringValues(<<"p", "y">>), t \in TimeoutValues,
        f \in StringValues(<<"m", ".", "p", "y">>), a \in ArgsValues,
        g \in {TomlString(<<"t">>)}}

GoodJavaSection ==
    MakeTable([name |-> TomlString(<<"n">>), tests_dir |-> TomlString(<<"f">>),
               main_class |-> TomlString(<<"M">>), target_dir |-> TomlString(<<"t">>)])

GoodPythonSection ==
    MakeTable([name |-> TomlString(<<"n">>), tests_dir |-> TomlString(<<"f">>),
               file |-> TomlString(<<"m", ".", "p", "y">>),
               target_dir |-> TomlString(<<"t">>)])

\* The documents from_toml_values is given: one section java or python,
\* no section, two sections, a section of another name, a top-level key
\* that is no section, and a value that is no table.
Documents ==
    {TomlTable([k \in {"java"} |-> sec]) : sec \in JavaSections} \cup
    {TomlTable([k \in {"python"} |-> sec]) : sec \in PythonSections} \cup
    {TomlTable(<<>>),
     TomlTable([k \in {"java", "python"} |->
                   IF k = "java" THEN GoodJavaSection ELSE GoodPythonSection]),
     TomlTable([k \in {"java", "title"} |->
                   IF k = "java" THEN GoodJavaSection ELSE TomlString(<<"x">>)]),
     TomlTable([k \in {"ruby"} |-> GoodJavaSection]),
     TomlTable([k \in {"Java"} |-> GoodJavaSection]),
     TomlTable([k \in {"java"} |-> TomlInteger(1)]),
     TomlString(<<"x">>)}

\* The directories args is called with.
ArgDirs == {StudentPath(<<"s", "1">>), <<"d">>}

\* The names of the students and of the cases of the reports.
Student10 == <<"s", "1", "0">>
CaseUpperB == <<"B">>

\* The outcomes a StudentResults holds.
Outcomes == {Ok(answer) : answer \in TestAnswer} \cup {Err("spawn")}

\* The ClassResults the renderers are given: no student, or up to two
\* students with the same cases, up to two.
RenderInputs ==
    UNION {[students -> [caseSet -> Outcomes]] :
              students \in {{}, {Student2}, {Student2, Student10}},
              caseSet \in {{}, {CaseA}, {CaseA, CaseUpperB}}}

\* A submitted program: whether it reads its standard input to the end
\* before it prints, what it prints (Echo: what it has read), and how
\* it ends.
Program(reads, out, end) == [reads |-> reads, out |-> out, end |-> end]

Echo == <<"$stdin">>

Texts == {<<>>, <<"h">>, <<"h", "\n">>}

\* More bytes than a pipe holds.
BigText == Repeat("h", PipeCap + 1)

Programs ==
    [reads : BOOLEAN,
     out : {Echo, <<BAD>>, BigText} \cup Texts,
     end : {"exit0", "exit1", "hang"}]

\* The programs the submissions of a whole grading run are drawn from.
SubmissionPrograms ==
    {Program(TRUE, Echo, "exit0"), Program(FALSE, <<BAD>>, "exit0"),
     Program(FALSE, <<"h">>, "hang")}

\* What the program prints, given the input it has read.
ChildOutput(prog, got) == IF prog.out = Echo THEN got ELSE prog.out


\* ---------------------------------------------------------------- state

VARIABLES
    config,         \* the TestConfig of the run
    fixtureDir,     \* the directory config.test_type() names
    targetDir,      \* the directory config.target_dir() names
    toml,           \* the toml::Value a configuration is loaded from (an Option)
    loaded,         \* what from_toml_values returned (an Option)
    argv,           \* the directory and the result of the last call of args
    report,         \* what output_class_results ended with (an Option)
    pc,             \* where test_from_configuration stands
    cases,          \* Vec<String> of discovered case names
    inputs,         \* Vec<String> of the cases' inputs
    outputs,        \* Vec<String> of the cases' expected outputs
    test_data,      \* HashMap<String, TestCase>
    entriesLeft,    \* entries the read_dir iterator has not yielded yet
    student,        \* the submission being processed (an Option)
    program,        \* what that submission's command does when run
    casesLeft,      \* cases the iterator over test_data has not yielded yet
    curCase,        \* the case being run (an Option)
    studentResults, \* the StudentResults being collected
    results,        \* the ClassResults being collected
    setupCalls,     \* submissions do_setup was called for
    setupFailed,    \* submissions do_setup returned false for
    invoked,        \* <<student, case>> pairs test_output_against_strings ran for
    unreaped,       \* the calls whose child was dropped without being waited on
    rpc,            \* where test_output_against_strings stands
    rin,            \* its input argument
    rexp,           \* its expected_output argument
    rtimeout,       \* its timeout argument
    rcmd,           \* what its cmd and args do when run
    child,          \* the child process
    stdinBuf,       \* bytes in the pipe to the child's standard input
    stdinOpen,      \* whether the runner still holds child.stdin
    stdoutBuf,      \* bytes in the pipe from the child's standard output
    wpos,           \* how many bytes of the input write_all has written
    waited,         \* what wait or wait_timeout returned (an Option)
    captured,       \* the child_output string
    rret,           \* the value returned (an Option)
    syserr          \* the system calls that failed during the call

\* The loading of the configuration, which comes before the grading run.
confVars == <<toml, loaded, argv>>

\* What the steps of a grading run leave alone: its configuration, the
\* directories, and the report that is made of its results.
worldVars == <<config, fixtureDir, targetDir, confVars, report>>

loadVars == <<cases, inputs, outputs, test_data>>

gradeVars ==
    <<entriesLeft, student, program, casesLeft, curCase, studentResults,
      results, setupCalls, setupFailed, invoked, unreaped>>

runVars ==
    <<rpc, rin, rexp, rtimeout, rcmd, child, stdinBuf, stdinOpen, stdoutBuf,
      wpos, waited, captured, rret, syserr>>

vars == <<worldVars, pc, loadVars, gradeVars, runVars>>

NoChild == [state |-> "none", cpc |-> "none", got |-> <<>>, outPos |-> 0,
            killed |-> FALSE, env |-> {}]

\* The runner between two calls.
RunnerIdle ==
    /\ rpc = "idle"
    /\ rin = <<>>
    /\ rexp = <<>>
    /\ rtimeout = None
    /\ rcmd = None
    /\ child = NoChild
    /\ stdinBuf = <<>>
    /\ stdinOpen = FALSE
    /\ stdoutBuf = <<>>
    /\ wpos = 0
    /\ waited = None
    /\ captured = <<>>
    /\ rret = None
    /\ syserr = {}

\* The state on entry to test_from_configuration.
Init ==
    /\ config \in Configs
    /\ fixtureDir \in FixtureDirs
    /\ targetDir \in TargetDirs
    /\ toml = None
    /\ loaded = None
    /\ argv = None
    /\ report = None
    /\ pc = "list_cases"
    /\ cases = <<>>
    /\ inputs = <<>>
    /\ outputs = <<>>
    /\ test_data = <<>>
    /\ entriesLeft = {}
    /\ student = None
    /\ program = None
    /\ casesLeft = {}
    /\ curCase = None
    /\ studentResults = <<>>
    /\ results = <<>>
    /\ setupCalls = {}
    /\ setupFailed = {}
    /\ invoked = {}
    /\ unreaped = {}
    /\ RunnerIdle

\* ------------------------------------------- test_from_configuration

\* fs::read_dir(dir)? fails: the error is returned.
ListCasesFails ==
    /\ pc = "list_cases"
    /\ ~fixtureDir.exists
    /\ pc' = "returned_err"
    /\ UNCHANGED <<worldVars, loadVars, gradeVars, runVars>>

\* A file name that is not Unicode: to_str() is None and expect panics.
ListCasesPanics ==
    /\ pc = "list_cases"
    /\ fixtureDir.exists
    /\ \E f \in DOMAIN fixtureDir.files : ~IsUtf8(f)
    /\ pc' = "panicked"
    /\ UNCHANGED <<worldVars, loadVars, gradeVars, runVars>>

\* The listing, in whatever order read_dir gives it, with the extensions
\* stripped and the duplicates dropped.
ListCases ==
    /\ pc = "list_cases"
    /\ fixtureDir.exists
    /\ \A f \in DOMAIN fixtureDir.files : IsUtf8(f)
    /\ \E listing \in Orders(DOMAIN fixtureDir.files) :
          cases' = Unique(Basenames(listing))
    /\ pc' = "read_inputs"
    /\ UNCHANGED <<worldVars, inputs, outputs, test_data, gradeVars, runVars>>

\* Every <case>.in is read; the first failure is returned.
ReadInputs ==
    /\ pc = "read_inputs"
    /\ LET r == ReadAll(fixtureDir, cases, <<".", "i", "n">>)
       IN IF r.ok
          THEN inputs' = r.data /\ pc' = "read_outputs"
          ELSE inputs' = inputs /\ pc' = "returned_err"
    /\ UNCHANGED <<worldVars, cases, outputs, test_data, gradeVars, runVars>>

\* Mutant: a <case>.out that cannot be read counts as empty.
M_ReadOutputs ==
    /\ pc = "read_outputs"
    /\ outputs' = [i \in 1..Len(cases) |->
                      IF Readable(fixtureDir, OutFile(cases[i]))
                      THEN fixtureDir.files[OutFile(cases[i])] ELSE <<>>]
    /\ pc' = "zip_cases"
    /\ UNCHANGED <<worldVars, cases, inputs, test_data, gradeVars, runVars>>

\* Every <case>.out is read; the first failure is returned.
ReadOutputs ==
    /\ pc = "read_outputs"
    /\ LET r == ReadAll(fixtureDir, cases, <<".", "o", "u", "t">>)
       IN IF r.ok
          THEN outputs' = r.data /\ pc' = "zip_cases"
          ELSE outputs' = outputs /\ pc' = "returned_err"
    /\ UNCHANGED <<worldVars, cases, inputs, test_data, gradeVars, runVars>>

\* The three vectors zipped into the map of test cases.
ZipTestData ==
    /\ pc = "zip_cases"
    /\ test_data' = ZipCases(cases, inputs, outputs)
    /\ pc' = "read_target"
    /\ UNCHANGED <<worldVars, cases, inputs, outputs, gradeVars, runVars>>

\* fs::read_dir(config.target_dir())? fails: the error is returned.
ReadTargetDirFails ==
    /\ pc = "read_target"
    /\ ~targetDir.exists
    /\ pc' = "returned_err"
    /\ UNCHANGED <<worldVars, loadVars, gradeVars, runVars>>

ReadTargetDir ==
    /\ pc = "read_target"
    /\ targetDir.exists
    /\ entriesLeft' = targetDir.entries
    /\ pc' = "next_entry"
    /\ UNCHANGED <<worldVars, loadVars, student, program, casesLeft, curCase,
                   studentResults, results, setupCalls, setupFailed, invoked,
                   unreaped,
                   runVars>>

\* Mutant: an entry that cannot be read ends the run with its error.
M_SkipEntry ==
    /\ pc = "next_entry"
    /\ \E e \in entriesLeft :
          /\ EntryKind(e) # "dir"
          /\ entriesLeft' = entriesLeft \ {e}
          /\ pc' = IF EntryKind(e) = "err" THEN "returned_err" ELSE pc
    /\ UNCHANGED <<worldVars, loadVars, student, program, casesLeft,
                   curCase, studentResults, results, setupCalls, setupFailed,
                   invoked,
                   unreaped, runVars>>

\* The filter_map: an entry that is an error, whose type cannot be read or
\* that is no directory is dropped.
SkipEntry ==
    /\ pc = "next_entry"
    /\ \E e \in entriesLeft :
          /\ EntryKind(e) # "dir"
          /\ entriesLeft' = entriesLeft \ {e}
    /\ UNCHANGED <<worldVars, pc, loadVars, student, program, casesLeft,
                   curCase, studentResults, results, setupCalls, setupFailed,
                   invoked,
                   unreaped, runVars>>

\* A directory whose name is not Unicode: to_str() is None, expect panics.
StudentNamePanics ==
    /\ pc = "next_entry"
    /\ \E e \in entriesLeft :
          /\ EntryKind(e) = "dir"
          /\ ~IsUtf8(e)
          /\ entriesLeft' = entriesLeft \ {e}
    /\ pc' = "panicked"
    /\ UNCHANGED <<worldVars, loadVars, student, program, casesLeft, curCase,
                   studentResults, results, setupCalls, setupFailed, invoked,
                   unreaped,
                   runVars>>

\* Mutant: the is_dir test is missing, a plain file is taken for a
\* submission.
M_EnterStudent ==
    /\ pc = "next_entry"
    /\ \E e \in entriesLeft :
          /\ EntryKind(e) # "err"
          /\ IsUtf8(e)
          /\ entriesLeft' = entriesLeft \ {e}
          /\ student' = Some(e)
    /\ pc' = "setup"
    /\ UNCHANGED <<worldVars, loadVars, program, casesLeft, curCase,
                   studentResults, results, setupCalls, setupFailed, invoked,
                   unreaped,
                   runVars>>

\* The next submission directory, in whatever order read_dir gives it.
EnterStudent ==
    /\ pc = "next_entry"
    /\ \E e \in entriesLeft :
          /\ EntryKind(e) = "dir"
          /\ IsUtf8(e)
          /\ entriesLeft' = entriesLeft \ {e}
          /\ student' = Some(e)
    /\ pc' = "setup"
    /\ UNCHANGED <<worldVars, loadVars, program, casesLeft, curCase,
                   studentResults, results, setupCalls, setupFailed, invoked,
                   unreaped,
                   runVars>>

\* Mutant: CompileError is recorded once, not once per case.
M_AllCompileError(data) == (<<"c", "o", "m", "p", "i", "l", "e">> :> Ok("CompileError"))

\* The StudentResults of a submission whose setup failed.
AllCompileError(data) == [k \in DOMAIN data |-> Ok("CompileError")]

\* Mutant: the early return is missing, the cases run after a failed setup.
M_SetupFails ==
    /\ pc = "setup"
    /\ \E compiles \in BOOLEAN : ~DoSetup(config.backend, compiles)
    /\ setupCalls' = setupCalls \cup {student[1]}
    /\ setupFailed' = setupFailed \cup {student[1]}
    /\ \E prog \in SubmissionPrograms : program' = Some(prog)
    /\ casesLeft' = DOMAIN test_data
    /\ studentResults' = <<>>
    /\ pc' = "run_cases"
    /\ UNCHANGED <<worldVars, loadVars, entriesLeft, student, curCase, results,
                   invoked,
                   unreaped, runVars>>

\* do_setup returns false: CompileError for every case, nothing is run.
SetupFails ==
    /\ pc = "setup"
    /\ \E compiles \in BOOLEAN : ~DoSetup(config.backend, compiles)
    /\ setupCalls' = setupCalls \cup {student[1]}
    /\ setupFailed' = setupFailed \cup {student[1]}
    /\ results' = results @@ (student[1] :> AllCompileError(test_data))
    /\ student' = None
    /\ pc' = "next_entry"
    /\ UNCHANGED <<worldVars, loadVars, entriesLeft, program, casesLeft,
                   curCase, studentResults, invoked,
                   unreaped, runVars>>

\* do_setup returns true: test_student_against_test_case starts iterating
\* over the cases with the submission's command.
SetupSucceeds ==
    /\ pc = "setup"
    /\ \E compiles \in BOOLEAN : DoSetup(config.backend, compiles)
    /\ setupCalls' = setupCalls \cup {student[1]}
    /\ \E prog \in SubmissionPrograms : program' = Some(prog)
    /\ casesLeft' = DOMAIN test_data
    /\ studentResults' = <<>>
    /\ pc' = "run_cases"
    /\ UNCHANGED <<worldVars, loadVars, entriesLeft, student, curCase, results,
                   setupFailed, invoked,
                   unreaped, runVars>>

\* The next case, in whatever order the HashMap gives it: the call of
\* test_output_against_strings.
CallRunner ==
    /\ pc = "run_cases"
    /\ rpc = "idle"
    /\ \E c \in casesLeft :
          /\ curCase' = Some(c)
          /\ invoked' = invoked \cup {<<student[1], c>>}
          /\ rin' = test_data[c].input
          /\ rexp' = test_data[c].output
    /\ rtimeout' = config.timeout
    /\ rcmd' = program
    /\ rpc' = "spawn"
    /\ UNCHANGED <<worldVars, pc, loadVars, entriesLeft, student, program,
                   casesLeft, studentResults, results, setupCalls, setupFailed,
                   child, stdinBuf, stdinOpen, stdoutBuf, wpos, captured, rret,
                   syserr>>
    /\ UNCHANGED <<waited, unreaped>>

\* Mutant: an error of one case ends the submission's run, as a ? on the
\* call's result would.
M_CollectOutcome ==
    /\ pc = "run_cases"
    /\ rpc = "done"
    /\ studentResults' = studentResults @@ (curCase[1] :> rret[1])
    /\ casesLeft' = IF rret[1].ok THEN casesLeft \ {curCase[1]} ELSE {}
    /\ curCase' = None
    /\ rpc' = "idle"
    /\ rin' = <<>>
    /\ rexp' = <<>>
    /\ rtimeout' = None
    /\ rcmd' = None
    /\ child' = NoChild
    /\ stdinBuf' = <<>>
    /\ stdinOpen' = FALSE
    /\ stdoutBuf' = <<>>
    /\ wpos' = 0
    /\ waited' = None
    /\ captured' = <<>>
    /\ rret' = None
    /\ syserr' = {}
    /\ unreaped' = IF child.state \in {"running", "zombie"}
                   THEN unreaped \cup {<<student[1], curCase[1]>>}
                   ELSE unreaped
    /\ UNCHANGED <<worldVars, pc, loadVars, entriesLeft, student, program,
                   results, setupCalls, setupFailed, invoked>>

\* Mutant: the outcomes are matched to the cases by position, as for a
\* vector of outcomes in the order the cases are listed in: the outcome goes
\* to the first listed case that has none yet.
M_RecordByPosition ==
    /\ pc = "run_cases"
    /\ rpc = "done"
    /\ LET i == Min({j \in 1..Len(cases) : cases[j] \notin DOMAIN studentResults})
       IN studentResults' = studentResults @@ (cases[i] :> rret[1])
    /\ casesLeft' = casesLeft \ {curCase[1]}
    /\ curCase' = None
    /\ rpc' = "idle"
    /\ rin' = <<>>
    /\ rexp' = <<>>
    /\ rtimeout' = None
    /\ rcmd' = None
    /\ child' = NoChild
    /\ stdinBuf' = <<>>
    /\ stdinOpen' = FALSE
    /\ stdoutBuf' = <<>>
    /\ wpos' = 0
    /\ waited' = None
    /\ captured' = <<>>
    /\ rret' = None
    /\ syserr' = {}
    /\ unreaped' = unreaped
    /\ UNCHANGED <<worldVars, pc, loadVars, entriesLeft, student, program,
                   results, setupCalls, setupFailed, invoked>>

\* The value the call returned goes into the map under the case's name.
\* The call's Child value is gone: std::process::Child does not wait when it
\* is dropped, so a child the call has not waited on stays unreaped.
CollectOutcome ==
    /\ pc = "run_cases"
    /\ rpc = "done"
    /\ studentResults' = studentResults @@ (curCase[1] :> rret[1])
    /\ casesLeft' = casesLeft \ {curCase[1]}
    /\ curCase' = None
    /\ rpc' = "idle"
    /\ rin' = <<>>
    /\ rexp' = <<>>
    /\ rtimeout' = None
    /\ rcmd' = None
    /\ child' = NoChild
    /\ stdinBuf' = <<>>
    /\ stdinOpen' = FALSE
    /\ stdoutBuf' = <<>>
    /\ wpos' = 0
    /\ waited' = None
    /\ captured' = <<>>
    /\ rret' = None
    /\ syserr' = {}
    /\ unreaped' = IF child.state \in {"running", "zombie"}
                   THEN unreaped \cup {<<student[1], curCase[1]>>}
                   ELSE unreaped
    /\ UNCHANGED <<worldVars, pc, loadVars, entriesLeft, student, program,
                   results, setupCalls, setupFailed, invoked>>

\* All cases ran: the submission's entry of the ClassResults.
FinishStudent ==
    /\ pc = "run_cases"
    /\ rpc = "idle"
    /\ casesLeft = {}
    /\ results' = results @@ (student[1] :> studentResults)
    /\ student' = None
    /\ program' = None
    /\ studentResults' = <<>>
    /\ pc' = "next_entry"
    /\ UNCHANGED <<worldVars, loadVars, entriesLeft, casesLeft, curCase,
                   setupCalls, setupFailed, invoked,
                   unreaped, runVars>>

\* The iterator is exhausted: collect() yields Ok(ClassResults).
ReturnResults ==
    /\ pc = "next_entry"
    /\ entriesLeft = {}
    /\ pc' = "returned_ok"
    /\ UNCHANGED <<worldVars, loadVars, gradeVars, runVars>>


\* --------------------------------------- test_output_against_strings

orchVars == <<worldVars, pc, loadVars, gradeVars>>

\* Command::new(cmd)...spawn()? fails: the error is returned.
SpawnFails ==
    /\ rpc = "spawn"
    /\ syserr' = syserr \cup {"spawn"}
    /\ rret' = Some(Err("spawn"))
    /\ rpc' = "done"
    /\ UNCHANGED <<orchVars, rin, rexp, rtimeout, rcmd, child, stdinBuf,
                   stdinOpen, stdoutBuf, wpos, captured>>
    /\ UNCHANGED waited

\* The child starts, with both of its standard streams piped.  The Command
\* is built from cmd and args alone: the child inherits the host
\* environment and env, the variables set on top of it, is empty.
Spawn ==
    /\ rpc = "spawn"
    /\ child' = [state |-> "running",
                 cpc |-> IF rcmd[1].reads THEN "read" ELSE "write",
                 got |-> <<>>, outPos |-> 0, killed |-> FALSE, env |-> {}]
    /\ stdinOpen' = TRUE
    /\ rpc' = "write"
    /\ UNCHANGED <<orchVars, rin, rexp, rtimeout, rcmd, stdinBuf, stdoutBuf,
                   wpos, captured, rret, syserr>>
    /\ UNCHANGED waited

\* write_all: one more byte goes into the pipe, if the pipe has room; the
\* call blocks while the pipe is full.
WriteInput ==
    /\ rpc = "write"
    /\ wpos < Len(rin)
    /\ child.state = "running"
    /\ Len(stdinBuf) < PipeCap
    /\ stdinBuf' = Append(stdinBuf, rin[wpos + 1])
    /\ wpos' = wpos + 1
    /\ UNCHANGED <<orchVars, rpc, rin, rexp, rtimeout, rcmd, child, stdinOpen,
                   stdoutBuf, captured, rret, syserr>>
    /\ UNCHANGED waited

\* write_all fails: the child has exited, nobody reads the pipe (EPIPE).
\* The error is returned.
WriteInputFails ==
    /\ rpc = "write"
    /\ wpos < Len(rin)
    /\ child.state # "running"
    /\ syserr' = syserr \cup {"write"}
    /\ rret' = Some(Err("write"))
    /\ rpc' = "done"
    /\ UNCHANGED <<orchVars, rin, rexp, rtimeout, rcmd, child, stdinBuf,
                   stdinOpen, stdoutBuf, wpos, captured>>
    /\ UNCHANGED waited

\* All of the input is written.  wait and wait_timeout both drop
\* child.stdin before they wait.
StartWait ==
    /\ rpc = "write"
    /\ wpos = Len(rin)
    /\ stdinOpen' = FALSE
    /\ rpc' = "wait"
    /\ UNCHANGED <<orchVars, rin, rexp, rtimeout, rcmd, child, stdinBuf,
                   stdoutBuf, wpos, captured, rret, syserr>>
    /\ UNCHANGED waited

\* The child has exited: wait returns its status, wait_timeout returns
\* Ok(Some(status)).
WaitExited ==
    /\ rpc = "wait"
    /\ child.state = "zombie"
    /\ child' = [child EXCEPT !.state = "reaped"]
    /\ waited' = Some("exited")
    /\ rpc' = "read"
    /\ UNCHANGED <<orchVars, rin, rexp, rtimeout, rcmd, stdinBuf, stdinOpen,
                   stdoutBuf, wpos, captured, rret, syserr>>

\* Mutant: an error of the wait is taken for a timeout.
M_WaitFails ==
    /\ rpc = "wait"
    /\ syserr' = syserr \cup {"wait"}
    /\ rret' = Some(Ok("Timeout"))
    /\ rpc' = "done"
    /\ UNCHANGED <<orchVars, rin, rexp, rtimeout, rcmd, child, stdinBuf,
                   stdinOpen, stdoutBuf, wpos, captured>>
    /\ UNCHANGED waited

\* wait or wait_timeout returns an error: it is returned.
WaitFails ==
    /\ rpc = "wait"
    /\ syserr' = syserr \cup {"wait"}
    /\ rret' = Some(Err("wait"))
    /\ rpc' = "done"
    /\ UNCHANGED <<orchVars, rin, rexp, rtimeout, rcmd, child, stdinBuf,
                   stdinOpen, stdoutBuf, wpos, captured>>
    /\ UNCHANGED waited

\* Mutant: the wait gives up whether or not a timeout is configured.
M_WaitTimesOut ==
    /\ rpc = "wait"
    /\ child.state = "running"
    /\ waited' = Some("expired")
    /\ rpc' = "kill"
    /\ UNCHANGED <<orchVars, rin, rexp, rtimeout, rcmd, child, stdinBuf,
                   stdinOpen, stdoutBuf, wpos, captured, rret, syserr>>

\* The delay passes and the child has not exited: Ok(None).
WaitTimesOut ==
    /\ rpc = "wait"
    /\ rtimeout # None
    /\ child.state = "running"
    /\ waited' = Some("expired")
    /\ rpc' = "kill"
    /\ UNCHANGED <<orchVars, rin, rexp, rtimeout, rcmd, child, stdinBuf,
                   stdinOpen, stdoutBuf, wpos, captured, rret, syserr>>

\* let _ = child.kill(): a child that still runs is killed.
Kill ==
    /\ rpc = "kill"
    /\ child' = IF child.state = "running"
                THEN [child EXCEPT !.state = "zombie", !.killed = TRUE]
                ELSE child
    /\ rpc' = "reap"
    /\ UNCHANGED <<orchVars, rin, rexp, rtimeout, rcmd, stdinBuf, stdinOpen,
                   stdoutBuf, wpos, captured, rret, syserr>>
    /\ UNCHANGED waited

\* child.wait() after the kill, and Timeout is returned.
Reap ==
    /\ rpc = "reap"
    /\ child' = [child EXCEPT !.state = "reaped"]
    /\ rret' = Some(Ok("Timeout"))
    /\ rpc' = "done"
    /\ UNCHANGED <<orchVars, rin, rexp, rtimeout, rcmd, stdinBuf, stdinOpen,
                   stdoutBuf, wpos, captured, syserr>>
    /\ UNCHANGED waited

\* child.wait() after the kill fails: the error is printed, and Timeout is
\* returned all the same.
ReapFails ==
    /\ rpc = "reap"
    /\ syserr' = syserr \cup {"reap"}
    /\ rret' = Some(Ok("Timeout"))
    /\ rpc' = "done"
    /\ UNCHANGED <<orchVars, rin, rexp, rtimeout, rcmd, child, stdinBuf,
                   stdinOpen, stdoutBuf, wpos, captured>>
    /\ UNCHANGED waited

\* read_from_stream: what is in the pipe, read to its end and decoded.
ReadOutput ==
    /\ rpc = "read"
    /\ IsUtf8(stdoutBuf)
    /\ captured' = stdoutBuf
    /\ stdoutBuf' = <<>>
    /\ rpc' = "compare"
    /\ UNCHANGED <<orchVars, rin, rexp, rtimeout, rcmd, child, stdinBuf,
                   stdinOpen, wpos, rret, syserr>>
    /\ UNCHANGED waited

\* String::from_utf8(data)? fails: the error is returned.
ReadOutputFails ==
    /\ rpc = "read"
    /\ ~IsUtf8(stdoutBuf)
    /\ stdoutBuf' = <<>>
    /\ syserr' = syserr \cup {"utf8"}
    /\ rret' = Some(Err("utf8"))
    /\ rpc' = "done"
    /\ UNCHANGED <<orchVars, rin, rexp, rtimeout, rcmd, child, stdinBuf,
                   stdinOpen, wpos, captured>>
    /\ UNCHANGED waited

\* A string without its trailing newline.
TrimNewline(str) ==
    IF str # <<>> /\ str[Len(str)] = "\n" THEN SubSeq(str, 1, Len(str) - 1) ELSE str

\* Mutant: the comparison ignores a trailing newline.
M_Matches(actual, expected) == TrimNewline(actual) = TrimNewline(expected)

\* child_output == expected_output
Matches(actual, expected) == actual = expected

\* Mutant: a child that exits with a status other than zero has failed.
M_Compare ==
    /\ rpc = "compare"
    /\ rret' = Some(Ok(IF Matches(captured, rexp) /\ rcmd[1].end = "exit0"
                       THEN "Success" ELSE "Failure"))
    /\ rpc' = "done"
    /\ UNCHANGED <<orchVars, rin, rexp, rtimeout, rcmd, child, stdinBuf,
                   stdinOpen, stdoutBuf, wpos, captured, syserr>>
    /\ UNCHANGED waited

\* The status of line 67 is dropped at line 78: the answer is made of the
\* output and expected_output alone.
Compare ==
    /\ rpc = "compare"
    /\ rret' = Some(Ok(IF Matches(captured, rexp) THEN "Success" ELSE "Failure"))
    /\ rpc' = "done"
    /\ UNCHANGED <<orchVars, rin, rexp, rtimeout, rcmd, child, stdinBuf,
                   stdinOpen, stdoutBuf, wpos, captured, syserr>>
    /\ UNCHANGED waited

\* ------------------------------------------------------ the child process

\* The child reads one byte of its standard input.
ChildReads ==
    /\ child.state = "running"
    /\ child.cpc = "read"
    /\ stdinBuf # <<>>
    /\ child' = [child EXCEPT !.got = Append(@, Head(stdinBuf))]
    /\ stdinBuf' = Tail(stdinBuf)
    /\ UNCHANGED <<orchVars, rpc, rin, rexp, rtimeout, rcmd, stdinOpen,
                   stdoutBuf, wpos, captured, rret, syserr>>
    /\ UNCHANGED waited

\* The pipe is empty and its write end is closed: end of input.
ChildSeesEof ==
    /\ child.state = "running"
    /\ child.cpc = "read"
    /\ stdinBuf = <<>>
    /\ ~stdinOpen
    /\ child' = [child EXCEPT !.cpc = "write"]
    /\ UNCHANGED <<orchVars, rpc, rin, rexp, rtimeout, rcmd, stdinBuf,
                   stdinOpen, stdoutBuf, wpos, captured, rret, syserr>>
    /\ UNCHANGED waited

\* The child prints one byte, if the pipe has room; it blocks while the
\* pipe is full.
ChildWrites ==
    /\ child.state = "running"
    /\ child.cpc = "write"
    /\ child.outPos < Len(ChildOutput(rcmd[1], child.got))
    /\ Len(stdoutBuf) < PipeCap
    /\ stdoutBuf' = Append(stdoutBuf, ChildOutput(rcmd[1], child.got)[child.outPos + 1])
    /\ child' = [child EXCEPT !.outPos = @ + 1]
    /\ UNCHANGED <<orchVars, rpc, rin, rexp, rtimeout, rcmd, stdinBuf,
                   stdinOpen, wpos, captured, rret, syserr>>
    /\ UNCHANGED waited

\* The child has printed everything and exits (unless it never ends).
ChildExits ==
    /\ child.state = "running"
    /\ child.cpc = "write"
    /\ child.outPos = Len(ChildOutput(rcmd[1], child.got))
    /\ rcmd[1].end # "hang"
    /\ child' = [child EXCEPT !.state = "zombie", !.cpc = "exited"]
    /\ UNCHANGED <<orchVars, rpc, rin, rexp, rtimeout, rcmd, stdinBuf,
                   stdinOpen, stdoutBuf, wpos, captured, rret, syserr>>
    /\ UNCHANGED waited

\* ------------------------------------------- loading the configuration

\* TestConfig::from_toml_values(values)
LoadConfig ==
    /\ toml # None
    /\ loaded = None
    /\ loaded' = Some(FromTomlValues(toml[1]))
    /\ UNCHANGED <<config, fixtureDir, targetDir, report, toml, argv, pc, loadVars,
                   gradeVars, runVars>>

\* Mutant: the main class is inserted into the configuration's own list
\* of arguments, not into a clone of it.
M_JavaArgsCall ==
    /\ loaded # None
    /\ loaded[1].ok
    /\ loaded[1].val.backend = "java"
    /\ \E dir \in ArgDirs :
          argv' = Some([dir |-> dir, list |-> JavaArgs(loaded[1].val, dir)])
    /\ loaded' = Some(Ok([loaded[1].val EXCEPT !.args = JavaArgs(loaded[1].val, <<>>)]))
    /\ UNCHANGED <<config, fixtureDir, targetDir, report, toml, pc, loadVars,
                   gradeVars, runVars>>

\* config.args(student_dir) on a Java configuration: &self is not changed.
JavaArgsCall ==
    /\ loaded # None
    /\ loaded[1].ok
    /\ loaded[1].val.backend = "java"
    /\ \E dir \in ArgDirs :
          argv' = Some([dir |-> dir, list |-> JavaArgs(loaded[1].val, dir)])
    /\ loaded' = loaded
    /\ UNCHANGED <<config, fixtureDir, targetDir, report, toml, pc, loadVars,
                   gradeVars, runVars>>

\* config.args(student_dir) on a Python configuration.
PythonArgsCall ==
    /\ loaded # None
    /\ loaded[1].ok
    /\ loaded[1].val.backend = "python"
    /\ \E dir \in ArgDirs :
          argv' = Some([dir |-> dir, list |-> PythonArgs(loaded[1].val, dir)])
    /\ loaded' = loaded
    /\ UNCHANGED <<config, fixtureDir, targetDir, report, toml, pc, loadVars,
                   gradeVars, runVars>>

\* ---------------------------------------------------------- the report

\* CsvOutput::output_class_results: results.iter().next() is any entry of
\* the map, and expect panics when there is none.
CsvOutputClassResults ==
    /\ pc = "returned_ok"
    /\ report = None
    /\ \/ /\ results = <<>>
          /\ report' = Some(RenderPanic("csv"))
       \/ \E first \in DOMAIN results : report' = Some(CsvLines(results, first))
    /\ UNCHANGED <<config, fixtureDir, targetDir, confVars, pc, loadVars,
                   gradeVars, runVars>>

\* Table::output_class_results
TableOutputClassResults ==
    /\ pc = "returned_ok"
    /\ report = None
    /\ \/ /\ results = <<>>
          /\ report' = Some(RenderPanic("print"))
       \/ \E first \in DOMAIN results : report' = Some(TableRows(results, first))
    /\ UNCHANGED <<config, fixtureDir, targetDir, confVars, pc, loadVars,
                   gradeVars, runVars>>

\* ------------------------------------------------------ specifications

RunnerStep ==
    \/ SpawnFails \/ Spawn
    \/ WriteInput \/ WriteInputFails \/ StartWait
    \/ WaitExited \/ WaitFails \/ WaitTimesOut
    \/ Kill \/ Reap \/ ReapFails
    \/ ReadOutput \/ ReadOutputFails \/ Compare
    \/ ChildReads \/ ChildSeesEof \/ ChildWrites \/ ChildExits

Next ==
    \/ ListCasesFails \/ ListCasesPanics \/ ListCases
    \/ ReadInputs \/ ReadOutputs \/ ZipTestData
    \/ ReadTargetDirFails \/ ReadTargetDir
    \/ SkipEntry \/ StudentNamePanics \/ EnterStudent
    \/ SetupFails \/ SetupSucceeds
    \/ CallRunner \/ CollectOutcome \/ FinishStudent \/ ReturnResults
    \/ RunnerStep
    \/ CsvOutputClassResults \/ TableOutputClassResults

\* A whole grading run, and the report main makes of its results.
Spec == Init /\ [][Next]_vars

\* One call of test_output_against_strings, with its arguments and the
\* program it runs drawn from bounded sets.
InitRunner ==
    /\ config \in {c \in Configs : c.backend = "python"}
    /\ fixtureDir = [exists |-> FALSE, files |-> <<>>]
    /\ targetDir = [exists |-> FALSE, entries |-> {}]
    /\ toml = None
    /\ loaded = None
    /\ argv = None
    /\ report = None
    /\ pc = "call"
    /\ cases = <<>>
    /\ inputs = <<>>
    /\ outputs = <<>>
    /\ test_data = <<>>
    /\ entriesLeft = {}
    /\ student = None
    /\ program = None
    /\ casesLeft = {}
    /\ curCase = None
    /\ studentResults = <<>>
    /\ results = <<>>
    /\ setupCalls = {}
    /\ setupFailed = {}
    /\ invoked = {}
    /\ unreaped = {}
    /\ rpc = "spawn"
    /\ rin \in Texts \cup {BigText}
    /\ rexp \in Texts
    /\ rtimeout = config.timeout
    /\ rcmd \in {Some(p) : p \in Programs}
    /\ child = NoChild
    /\ stdinBuf = <<>>
    /\ stdinOpen = FALSE
    /\ stdoutBuf = <<>>
    /\ wpos = 0
    /\ waited = None
    /\ captured = <<>>
    /\ rret = None
    /\ syserr = {}

SpecRunner == InitRunner /\ [][RunnerStep]_vars

\* The steps of the thread that runs test_output_against_strings, and the
\* steps of the child process.
RunnerProcess ==
    \/ SpawnFails \/ Spawn
    \/ WriteInput \/ WriteInputFails \/ StartWait
    \/ WaitExited \/ WaitFails \/ WaitTimesOut
    \/ Kill \/ Reap \/ ReadOutput \/ ReadOutputFails \/ Compare \/ ReapFails

ChildProcess == ChildReads \/ ChildSeesEof \/ ChildWrites \/ ChildExits

\* One call with both processes scheduled: a process that can take a step
\* does not stand still for ever (a wait with a timeout ends when the
\* delay has passed).
SpecRunnerFair ==
    SpecRunner /\ WF_vars(RunnerProcess) /\ WF_vars(ChildProcess)

\* The loading of the fixtures alone, up to the map of test cases.
InitLoad ==
    /\ config \in {c \in Configs : c.backend = "python"}
    /\ fixtureDir \in LoadDirs
    /\ targetDir = [exists |-> FALSE, entries |-> {}]
    /\ toml = None
    /\ loaded = None
    /\ argv = None
    /\ report = None
    /\ pc = "list_cases"
    /\ cases = <<>>
    /\ inputs = <<>>
    /\ outputs = <<>>
    /\ test_data = <<>>
    /\ entriesLeft = {}
    /\ student = None
    /\ program = None
    /\ casesLeft = {}
    /\ curCase = None
    /\ studentResults = <<>>
    /\ results = <<>>
    /\ setupCalls = {}
    /\ setupFailed = {}
    /\ invoked = {}
    /\ unreaped = {}
    /\ RunnerIdle

LoadStep ==
    \/ ListCasesFails \/ ListCasesPanics \/ ListCases
    \/ ReadInputs \/ ReadOutputs \/ ZipTestData

SpecLoad == InitLoad /\ [][LoadStep]_vars

\* The loading of a configuration from a document, and calls of its args.
InitConf ==
    /\ config \in {c \in Configs : c.backend = "python" /\ c.timeout = None}
    /\ fixtureDir = [exists |-> FALSE, files |-> <<>>]
    /\ targetDir = [exists |-> FALSE, entries |-> {}]
    /\ toml \in {Some(d) : d \in Documents}
    /\ loaded = None
    /\ argv = None
    /\ report = None
    /\ pc = "load_config"
    /\ cases = <<>>
    /\ inputs = <<>>
    /\ outputs = <<>>
    /\ test_data = <<>>
    /\ entriesLeft = {}
    /\ student = None
    /\ program = None
    /\ casesLeft = {}
    /\ curCase = None
    /\ studentResults = <<>>
    /\ results = <<>>
    /\ setupCalls = {}
    /\ setupFailed = {}
    /\ invoked = {}
    /\ unreaped = {}
    /\ RunnerIdle

ConfStep == LoadConfig \/ JavaArgsCall \/ PythonArgsCall

SpecConf == InitConf /\ [][ConfStep]_vars

\* The rendering of a ClassResults by the two renderers.
InitRender ==
    /\ config \in {c \in Configs : c.backend = "python" /\ c.timeout = None}
    /\ fixtureDir = [exists |-> FALSE, files |-> <<>>]
    /\ targetDir = [exists |-> FALSE, entries |-> {}]
    /\ toml = None
    /\ loaded = None
    /\ argv = None
    /\ report = None
    /\ pc = "returned_ok"
    /\ cases = <<>>
    /\ inputs = <<>>
    /\ outputs = <<>>
    /\ test_data = <<>>
    /\ entriesLeft = {}
    /\ student = None
    /\ program = None
    /\ casesLeft = {}
    /\ curCase = None
    /\ studentResults = <<>>
    /\ results \in RenderInputs
    /\ setupCalls = {}
    /\ setupFailed = {}
    /\ invoked = {}
    /\ unreaped = {}
    /\ RunnerIdle

RenderStep == CsvOutputClassResults \/ TableOutputClassResults

SpecRender == InitRender /\ [][RenderStep]_vars


\* ------------------------------------------------------ claims: the run

\* The case names a fixture directory gives rise to, in any listing order.
CaseNames(dir) == UNION {Range(StripExt(f)) : f \in DOMAIN dir.files}

\* Whether both files of every case of the directory can be read.
Loadable(dir) ==
    /\ dir.exists
    /\ \A c \in CaseNames(dir) :
          Readable(dir, InFile(c)) /\ Readable(dir, OutFile(c))

\* The submissions all cases ran for.
Graded == setupCalls \ setupFailed

\* C1: every StudentResults of the ClassResults has exactly the key set of
\* the loaded test cases, whether the submission's setup succeeded or failed.
C1_Completeness ==
    \A s \in DOMAIN results :
        /\ DOMAIN results[s] = DOMAIN test_data
        /\ DOMAIN results[s] = Range(cases)

\* C1 witness: a run returns with two test cases, one submission whose
\* setup failed and one whose cases ran.
C1_Witness ==
    /\ pc = "returned_ok"
    /\ Cardinality(DOMAIN test_data) = 2
    /\ setupFailed # {}
    /\ DOMAIN results \ setupFailed # {}

\* C2: when do_setup returns false for a submission, its result is
\* CompileError for every case and test_output_against_strings is never
\* invoked for it.
C2_SetupFailureSkipsRun ==
    \A s \in setupFailed :
        /\ \A c \in DOMAIN test_data : <<s, c>> \notin invoked
        /\ s \in DOMAIN results
        /\ \A c \in DOMAIN test_data : results[s][c] = Ok("CompileError")
        /\ (student = Some(s)) => rpc = "idle"

\* C2 witness: a run returns with two cases, a submission whose setup
\* failed and another one whose cases were run.
C2_Witness ==
    /\ pc = "returned_ok"
    /\ Cardinality(DOMAIN test_data) = 2
    /\ \E s \in setupFailed, t \in Graded :
          \A c \in DOMAIN test_data : <<t, c>> \in invoked

\* C7: an error of one (student, case) pair is recorded as the outcome of
\* that pair alone: the step that takes the error from the runner adds it
\* under the case's name, changes no other outcome and goes on with the
\* next case; and the ClassResults returned has an outcome for every case
\* of every submission, each case of a graded submission having been run.
C7_FailureIsolation ==
    [][/\ (pc = "run_cases" /\ rpc = "done" /\ ~rret[1].ok /\ rpc' # rpc) =>
             /\ pc' = "run_cases"
             /\ results' = results
             /\ entriesLeft' = entriesLeft
             /\ studentResults' = studentResults @@ (curCase[1] :> rret[1])
             /\ casesLeft' = casesLeft \ {curCase[1]}
       /\ (pc' = "returned_ok") =>
             /\ DOMAIN results' = {e \in targetDir.entries : EntryKind(e) = "dir"}
             /\ \A s \in DOMAIN results' : DOMAIN results'[s] = DOMAIN test_data
             /\ invoked' = Graded' \X DOMAIN test_data]_vars

\* C7 witness: a run returns the outcomes of two submissions, one of them
\* with an error for one case and Success for the other case.
C7_Witness ==
    /\ pc = "returned_ok"
    /\ \E s, t \in DOMAIN results :
          /\ s # t
          /\ t \in Graded
          /\ \E c, d \in DOMAIN test_data :
                ~results[s][c].ok /\ results[s][d] = Ok("Success")

BrokenCase ==
    \E i \in 1..Len(cases) :
        \/ ~Readable(fixtureDir, InFile(cases[i]))
        \/ ~Readable(fixtureDir, OutFile(cases[i]))

\* C9: if the .in or the .out file of a discovered case is missing or is
\* not UTF-8, the run ends with an error and no ClassResults, before
\* do_setup is called and before any case is run.
C9_FixtureFailureIsFatal ==
    BrokenCase =>
        /\ pc \in {"read_inputs", "read_outputs", "returned_err"}
        /\ results = <<>>
        /\ test_data = <<>>
        /\ setupCalls = {}
        /\ invoked = {}
        /\ rpc = "idle"

\* C9 witness: two cases are discovered, one complete and one without a
\* readable .out file, a submission is there to grade, and the run has
\* returned an error.
C9_Witness ==
    /\ pc = "returned_err"
    /\ Student1 \in targetDir.entries
    /\ \E i, j \in 1..Len(cases) :
          /\ Readable(fixtureDir, InFile(cases[i]))
          /\ Readable(fixtureDir, OutFile(cases[i]))
          /\ Readable(fixtureDir, InFile(cases[j]))
          /\ ~Readable(fixtureDir, OutFile(cases[j]))

\* Whether a file name follows the <case>.in / <case>.out convention.
Conforming(f) ==
    \E c \in Range(StripExt(f)) : f = InFile(c) \/ f = OutFile(c)

\* The directory without the files that do not follow the convention.
ConformingOnly(dir) ==
    [exists |-> dir.exists,
     files |-> [f \in {g \in DOMAIN dir.files : Conforming(g)} |-> dir.files[f]]]

\* C10 as claimed: files that do not follow the naming convention are
\* ignored: when the directory without them loads, the directory with them
\* loads too, and gives the same test cases.
C10_OtherFilesIgnored ==
    (Loadable(ConformingOnly(fixtureDir)) /\ targetDir.exists) =>
        /\ pc # "returned_err"
        /\ (pc \notin {"list_cases", "read_inputs", "read_outputs", "zip_cases"})
              => DOMAIN test_data = CaseNames(ConformingOnly(fixtureDir))

\* The immediate subdirectories of the target directory.
Subdirectories == {e \in targetDir.entries : EntryKind(e) = "dir"}

C13_NeverPanics == pc # "panicked"

\* C14 as claimed: every child spawned for a test case runs with the host
\* environment plus the variables env_vars returns for the submission
\* directory: CLASSPATH set to that directory for Java, none for Python.
C14_ChildEnvironment ==
    (pc = "run_cases" /\ child.state # "none") =>
        child.env = EnvVars(config.backend, StudentPath(student[1]))

\* ------------------------------------------- claims: the configuration

\* The only section of the document, when it has exactly one.
Section == toml[1].m[CHOOSE k \in DOMAIN toml[1].m : TRUE]

\* The fields a backend requires.
Required(backend) ==
    IF backend = "java" THEN {"name", "tests_dir", "target_dir", "main_class"}
    ELSE {"name", "tests_dir", "target_dir", "file"}

\* Whether the value of a key, if the key is there, has one of the types.
Shaped(sec, key, types) == key \in DOMAIN sec.m => sec.m[key].t \in types

\* The document has exactly one top-level section, named java or python,
\* with every required field a string and timeout and args of an accepted
\* shape.
WellFormed(doc) ==
    /\ doc.t = "Table"
    /\ Cardinality(DOMAIN doc.m) = 1
    /\ \E k \in DOMAIN doc.m :
          /\ k \in {"java", "python"}
          /\ doc.m[k].t = "Table"
          /\ \A f \in Required(k) :
                f \in DOMAIN doc.m[k].m /\ doc.m[k].m[f].t = "String"
          /\ Shaped(doc.m[k], "timeout", {"Integer", "Float", "Boolean"})
          /\ Shaped(doc.m[k], "args", {"Array"})
          /\ "args" \in DOMAIN doc.m[k].m =>
                \A i \in 1..Len(doc.m[k].m["args"].a) :
                    doc.m[k].m["args"].a[i].t \notin {"Array", "Table"}

C16_TimeoutOfConfiguration ==
    (loaded # None /\ loaded[1].ok) =>
        LET given == Get(Section, "timeout")
            timeout == loaded[1].val.timeout
        IN /\ given = None => timeout = Some(Duration(5, 0))
           /\ (given # None /\ given[1].t = "Boolean") =>
                 timeout = IF given[1].b THEN Some(Duration(5, 0)) ELSE None
           /\ (given # None /\ given[1].t = "Integer") =>
                 timeout = Some(Duration(given[1].i, 0))

\* The extra arguments the document configures.
ExtraArgs == IF "args" \in DOMAIN Section.m THEN Section.m["args"].a ELSE <<>>

\* C17: the list args returns is the main class (Java) or the path
\* <directory>/<file> (Python) followed by the configured extra arguments
\* in their order, so 1 plus their number long, at every call.
C17_ArgumentList ==
    (argv # None) =>
        LET list == argv[1].list
        IN /\ Len(list) = 1 + Len(ExtraArgs)
           /\ list[1] = IF "java" \in DOMAIN toml[1].m
                        THEN Section.m["main_class"].s
                        ELSE argv[1].dir \o <<"/">> \o Section.m["file"].s
           /\ \A i \in 1..Len(ExtraArgs) :
                 list[i + 1] = IF ExtraArgs[i].t = "String" THEN ExtraArgs[i].s
                               ELSE FormatArg(ExtraArgs[i]).val
           /\ loaded[1].val.args = SubSeq(list, 2, Len(list))

\* C17 witness: a Python configuration with two extra arguments returns
\* three arguments for a submission directory.
C17_Witness ==
    /\ argv # None
    /\ "python" \in DOMAIN toml[1].m
    /\ argv[1].dir = StudentPath(<<"s", "1">>)
    /\ argv[1].list = <<StudentPath(<<"s", "1">>) \o <<"/", "m", ".", "p", "y">>,
                        <<"x">>, <<"y">>>>

\* The children that have been spawned and not waited on: those of the
\* calls that have returned, and the one of the call that is running.
Unreaped ==
    Cardinality(unreaped) + (IF child.state \in {"running", "zombie"} THEN 1 ELSE 0)

\* C19 as claimed: the number of children spawned and not yet reaped never
\* exceeds a fixed bound, whatever the number of submissions and of cases;
\* the cases are run one after the other, so the bound is one child.
C19_BoundedChildren == Unreaped <= 1

\* What a program prints in all when it is run on an input.
PrintedOn(prog, input) ==
    IF prog.out = Echo THEN (IF prog.reads THEN input ELSE <<>>) ELSE prog.out

\* The values one run of a program on a case can return, taken by itself:
\* the spawn may fail; the write of the input fails if the program can exit
\* without reading it; once the input is written the wait may fail or, with
\* a timeout, expire; and a program that ends and whose output fits into the
\* pipe is judged by its output.
RunOutcomes(prog, input, expected, timeout) ==
    LET out == PrintedOn(prog, input)
        canExit == prog.end # "hang" /\ Len(out) <= PipeCap
        written == prog.reads \/ Len(input) <= PipeCap
    IN {Err("spawn")}
       \cup (IF input # <<>> /\ ~prog.reads /\ canExit THEN {Err("write")} ELSE {})
       \cup (IF written THEN {Err("wait")} ELSE {})
       \cup (IF written /\ timeout # None THEN {Ok("Timeout")} ELSE {})
       \cup (IF written /\ canExit
             THEN {IF ~IsUtf8(out) THEN Err("utf8")
                   ELSE IF out = expected THEN Ok("Success") ELSE Ok("Failure")}
             ELSE {})

\* The outcomes of a whole submission are those of one program, each case's
\* outcome one that a run of the program on that case by itself can give.
OutcomesOfOneProgram(prog, outcomes) ==
    \A c \in DOMAIN outcomes :
        outcomes[c] \in RunOutcomes(prog, test_data[c].input, test_data[c].output,
                                    config.timeout)

Header == report[1].rows[1]
StudentRows == Tail(report[1].rows)

\* The cases of the students of the results.
ReportedCases == UNION {DOMAIN results[n] : n \in DOMAIN results}

\* Whether the names follow each other in ascending order.
Ascending(names) ==
    \A i \in 1..(Len(names) - 1) : StrLess(names[i], names[i + 1])

\* The mark C20 gives an outcome.
MarkOf(outcome) ==
    IF ~outcome.ok THEN "!"
    ELSE CASE outcome.val = "Success" -> " "
           [] outcome.val \in {"Failure", "FailWithMessage"} -> "F"
           [] outcome.val = "Timeout" -> "T"
           [] outcome.val = "CompileError" -> "C"

\* C20: a report the CSV or the table renderer has written lists the
\* cases in ascending order of their names after the three leading
\* columns, and the students in ascending order of their names, one row
\* each; a student's row shows the number of the student's cases whose
\* outcome is Success as Passed, the number of cases as Total, and for
\* each case a blank for Success, F for Failure or FailWithMessage, T
\* for Timeout, C for CompileError and ! for an error.
C20_ReportLayout ==
    (report # None /\ ~report[1].panicked) =>
        LET case_names == SubSeq(Header, 4, Len(Header))
            names == [k \in 1..Len(StudentRows) |-> StudentRows[k][1]]
        IN /\ Header[2] = <<"P", "a", "s", "s", "e", "d">>
           /\ Header[3] = <<"T", "o", "t", "a", "l">>
           /\ Ascending(case_names)
           /\ Range(case_names) = ReportedCases
           /\ Ascending(names)
           /\ Range(names) = DOMAIN results
           /\ \A k \in 1..Len(StudentRows) :
                  LET row == StudentRows[k]
                      outcome == results[row[1]]
                  IN /\ Len(row) = Len(Header)
                     /\ row[2] = DecimalDigits(
                            Cardinality({c \in DOMAIN outcome :
                                            /\ outcome[c].ok
                                            /\ outcome[c].val = "Success"}))
                     /\ row[3] = DecimalDigits(Cardinality(ReportedCases))
                     /\ \A i \in 1..Len(case_names) :
                            row[3 + i] = <<MarkOf(outcome[case_names[i]])>>

\* C20 witness: the table of two students and two cases is written, the
\* first student of the map passing one case and failing the other, the
\* second running out of time and meeting an error.
C20_Witness ==
    /\ report # None
    /\ report[1].mode = "print"
    /\ ~report[1].panicked
    /\ DOMAIN results = {Student2, Student10}
    /\ results[Student2] = (CaseA :> Ok("Success") @@ CaseUpperB :> Ok("Failure"))
    /\ results[Student10] = (CaseA :> Ok("Timeout") @@ CaseUpperB :> Err("spawn"))

\* -------------------------------------------------- claims: the loading

\* A file name without its final extension: what comes before its last dot.
Basename(f) == SubSeq(f, 1, Max({p \in 1..Len(f) : f[p] = "."}) - 1)

\* The cases of a directory both of whose files exist.
CompleteCases(dir) ==
    {Basename(f) : f \in {g \in DOMAIN dir.files :
        /\ "." \in Range(g)
        /\ g = InFile(Basename(g))
        /\ OutFile(Basename(g)) \in DOMAIN dir.files}}

\* C11 as claimed: when the fixtures have loaded, no case name is listed
\* twice, and every case whose .in and .out files both exist is one test
\* case, keyed by the file name without its final extension, that holds the
\* content of its own .in file as input and of its own .out file as
\* expected output.
C11_OneCasePerBasename ==
    (pc = "read_target") =>
        /\ Len(cases) = Cardinality(Range(cases))
        /\ DOMAIN test_data = Range(cases)
        /\ \A c \in CompleteCases(fixtureDir) :
              /\ c \in DOMAIN test_data
              /\ test_data[c] = [input |-> fixtureDir.files[InFile(c)],
                                 output |-> fixtureDir.files[OutFile(c)]]

\* --------------------------------------------------- claims: the runner

\* What the program of the call prints in all.
FullOutput == ChildOutput(rcmd[1], child.got)

C4_NoPipeDeadlock ==
    (/\ rcmd # None
     /\ rcmd[1].reads
     /\ rcmd[1].end # "hang"
     /\ child.state # "none"
     /\ child.cpc = "write"
     /\ child.outPos < Len(FullOutput)
     /\ Len(stdoutBuf) = PipeCap) =>
        /\ ~(rpc = "wait" /\ rtimeout = None)
        /\ ~(rpc = "done" /\ rret = Some(Ok("Timeout")))

\* C5: when the child exits before any timeout and its output is UTF-8,
\* the outcome is Success if what it printed equals expected_output exactly
\* and Failure otherwise; Success is never returned for another output.
C5_ExactComparison ==
    /\ (rpc = "done" /\ waited = Some("exited") /\ IsUtf8(FullOutput)) =>
          rret = Some(Ok(IF FullOutput = rexp THEN "Success" ELSE "Failure"))
    /\ (rret = Some(Ok("Success"))) => FullOutput = rexp /\ captured = rexp
    /\ (rret = Some(Ok("Failure"))) => FullOutput # rexp

\* C5 witness: the child printed the expected output and a newline after
\* it, and the outcome is Failure.
C5_Witness ==
    /\ rpc = "done"
    /\ rret = Some(Ok("Failure"))
    /\ FullOutput = rexp \o <<"\n">>

\* The failures C6 names, as the model records them.
NamedFailures == {"spawn", "write", "wait", "reap", "utf8"}

\* C6 as claimed: every failure to spawn, to write the input, to wait or
\* to decode the output is returned as an error.
C6_EveryFailureIsAnError ==
    (rpc = "done" /\ syserr \cap NamedFailures # {}) => ~rret[1].ok

\* C6 amended: a failure to spawn, to write the input, to wait for the
\* child's exit or to decode its output is returned as an error that
\* carries a message, and only such a failure is; a failure of the wait
\* that reaps the child after a timeout is printed and Timeout is returned.
C6_FailuresAreErrors ==
    rpc = "done" =>
        /\ rret # None
        /\ rret[1].ok <=> (syserr \cap {"spawn", "write", "wait", "utf8"} = {})
        /\ ~rret[1].ok => rret[1].val \in syserr
        /\ rret[1].ok => rret[1].val \in {"Success", "Failure", "Timeout"}
        /\ ("reap" \in syserr) => rret = Some(Ok("Timeout"))

\* C6 witness: the wait failed while the child was running, and the call
\* returned the error.
C6_Witness ==
    /\ rpc = "done"
    /\ syserr = {"wait"}
    /\ child.state = "running"
    /\ rret = Some(Err("wait"))


\* C21 as claimed: when test_output_against_strings has returned, the child
\* it spawned has been waited on, whichever way the call returned.
C21_ChildReapedOnReturn ==
    (rpc = "done" /\ child.state # "none") => child.state = "reaped"


\* C22 as claimed: a call with a timeout returns in the end, whatever the
\* child does.
C22_ReturnsUnderTimeout ==
    (rtimeout # None) ~> (rpc = "done")


\* C23: when the wait has returned the child's exit, the outcome is given
\* by what the child printed and expected_output alone; the exit status
\* plays no part: a child that exits with a status other than zero and
\* prints exactly the expected output gets Success, and one that exits
\* with status zero and prints something else gets Failure.
C23_ExitStatusIgnored ==
    (rpc = "done" /\ waited = Some("exited")) =>
        /\ rret = Some(IF ~IsUtf8(FullOutput) THEN Err("utf8")
                       ELSE IF FullOutput = rexp THEN Ok("Success")
                       ELSE Ok("Failure"))
        /\ (rcmd[1].end = "exit1" /\ FullOutput = rexp) =>
               rret = Some(Ok("Success"))
        /\ (rcmd[1].end = "exit0" /\ IsUtf8(FullOutput) /\ FullOutput # rexp) =>
               rret = Some(Ok("Failure"))

\* C23 witness: a child that exited with a status other than zero after
\* it had printed the expected output, which is not empty, got Success.
C23_Witness ==
    /\ rpc = "done"
    /\ waited = Some("exited")
    /\ rcmd[1].end = "exit1"
    /\ rexp # <<>>
    /\ FullOutput = rexp
    /\ rret = Some(Ok("Success"))


\* The timeout of the one section of the document is an integer.
IntegerTimeoutGiven ==
    /\ toml # None
    /\ toml[1].t = "Table"
    /\ DOMAIN toml[1].m \in {{"java"}, {"python"}}
    /\ Section.t = "Table"
    /\ "timeout" \in DOMAIN Section.m
    /\ Section.m["timeout"].t = "Integer"

\* C24 as claimed: for an integer timeout n of the configuration, the
\* construction fails when n is negative, and a configuration that is
\* built has a timeout of exactly n seconds, n being zero or more.
C24_NegativeTimeoutRejected ==
    (loaded # None /\ IntegerTimeoutGiven) =>
        LET n == Section.m["timeout"].i
        IN /\ n < 0 => ~loaded[1].ok
           /\ loaded[1].ok =>
                 /\ n >= 0
                 /\ loaded[1].val.timeout = Some(Duration(n, 0))


\* C25 as claimed: output_class_results ends without a panic on every
\* ClassResults test_from_configuration returns, the empty one of a target
\* directory without a submission included.
C25_RenderWithoutPanic ==
    (report # None) => ~report[1].panicked

====
